---- MODULE Spec2Model ----
(***************************************************************************)
(* Model of dailynumbers.py: one run of main() (credentials, the loop over *)
(* CONFIG with fetch / row_for_date / field evaluation, build_blocks and   *)
(* slack_post_blocks), and the pure parts (row_for_date, the field-spec    *)
(* dispatch of main) exercised on bounded inputs.                          *)
(*                                                                         *)
(* Strings are sequences of one-character strings.  A cell or an output    *)
(* value is a record [t, n]:                                               *)
(*   none      Python None                                                 *)
(*   int n     an int                                                      *)
(*   float n   a finite float,  inf / ninf / nan  the float specials       *)
(*   empty     the string ""                                               *)
(*   text      a string that is neither a number nor a date                *)
(*   numstr n  the decimal string of n                                     *)
(*   date n    a date string of day n, datetime n the same with a time     *)
(*                                                                         *)
(* fetched is a history variable: what the fetch of each source returned.  *)
(***************************************************************************)
EXTENDS Integers, Sequences, FiniteSets, TLC

VARIABLES CONFIG, env, y_mt, pc, i, df, row, row_l, j, fields_out, results,
          exc, status_code, blocks, sheet, sel_out, f_in, f_out, fetched

vars == <<CONFIG, env, y_mt, pc, i, df, row, row_l, j, fields_out, results,
          exc, status_code, blocks, sheet, sel_out, f_in, f_out, fetched>>

----------------------------------------------------------------------------
(* Bounds *)

MaxSources == 3
MaxRows == 2
MaxCols == 2
MaxKeys == 2
MaxFields == 3

----------------------------------------------------------------------------
(* Strings *)

LowerCh(c) ==
  CASE c = "A" -> "a"
    [] c = "B" -> "b"
    [] c = "D" -> "d"
    [] c = "S" -> "s"
    [] c = "L" -> "l"
    [] OTHER -> c

Lower(s) == [k \in 1..Len(s) |-> LowerCh(s[k])]

RECURSIVE LStrip(_)
LStrip(s) == IF s # <<>> /\ Head(s) = " " THEN LStrip(Tail(s)) ELSE s

RECURSIVE RStrip(_)
RStrip(s) ==
  IF s # <<>> /\ s[Len(s)] = " " THEN RStrip(SubSeq(s, 1, Len(s) - 1)) ELSE s

Strip(s) == RStrip(LStrip(s))

----------------------------------------------------------------------------
(* Values *)

V(t, n) == [t |-> t, n |-> n]
None == V("none", 0)
NaN == V("nan", 0)
Inf == V("inf", 0)
NInf == V("ninf", 0)
Int0 == V("int", 0)
Float0 == V("float", 0)

\* float + float
FAdd(x, y) ==
  CASE x.t = "nan" \/ y.t = "nan" -> NaN
    [] x.t = "inf" -> IF y.t = "ninf" THEN NaN ELSE Inf
    [] x.t = "ninf" -> IF y.t = "inf" THEN NaN ELSE NInf
    [] y.t = "inf" -> Inf
    [] y.t = "ninf" -> NInf
    [] OTHER -> V("float", x.n + y.n)

\* float(v): the float, or a raise of ValueError / TypeError
ToFloat(v) ==
  CASE v.t = "int" -> [ok |-> TRUE, v |-> V("float", v.n)]
    [] v.t = "numstr" -> [ok |-> TRUE, v |-> V("float", v.n)]
    [] v.t \in {"float", "inf", "ninf", "nan"} -> [ok |-> TRUE, v |-> v]
    [] OTHER -> [ok |-> FALSE, v |-> None]

\* sum(vals): starts from the int 0
RECURSIVE PySum(_)
PySum(vals) ==
  IF vals = <<>> THEN Int0
  ELSE LET h == PySum(SubSeq(vals, 1, Len(vals) - 1))
           l == vals[Len(vals)]
       IN IF h.t = "int" THEN FAdd(V("float", h.n), l) ELSE FAdd(h, l)

----------------------------------------------------------------------------
(* dict *)

EmptyDict == [x \in {} |-> None]
DictPut(d, k, v) == [x \in (DOMAIN d) \cup {k} |-> IF x = k THEN v ELSE d[x]]
DictGet(d, k, default) == IF k \in DOMAIN d THEN d[k] ELSE default

\* an insertion-ordered dict as a sequence of [k, v]
RECURSIVE ODictPut(_, _, _)
ODictPut(d, k, v) ==
  IF d = <<>> THEN <<[k |-> k, v |-> v]>>
  ELSE IF Head(d).k = k THEN <<[k |-> k, v |-> v]>> \o Tail(d)
  ELSE <<Head(d)>> \o ODictPut(Tail(d), k, v)

\* mutant: a folded name already present keeps its value
RECURSIVE RowLUpTo_FirstWins(_, _)
RowLUpTo_FirstWins(r, n) ==
  IF n = 0 THEN EmptyDict
  ELSE LET d == RowLUpTo_FirstWins(r, n - 1)
       IN IF Lower(r[n].k) \in DOMAIN d THEN d
          ELSE DictPut(d, Lower(r[n].k), r[n].v)

\* row_l = {str(k).lower(): v for k, v in row.items()}
RECURSIVE RowLUpTo(_, _)
RowLUpTo(r, n) ==
  IF n = 0 THEN EmptyDict
  ELSE DictPut(RowLUpTo(r, n - 1), Lower(r[n].k), r[n].v)

RowL(r) == RowLUpTo(r, Len(r))

----------------------------------------------------------------------------
(* Field specs.  One entry f of cfg["fields"] is a record                  *)
(*   kind      "str" (a Python str), "dict", or "other" (anything else)    *)
(*   s         the string, when kind = "str"                               *)
(*   haskey    "key" in f,   key   f["key"]                                *)
(*   hassum    "sum" in f,   sum   f["sum"] when it is a list of strings,  *)
(*             sumiter FALSE when f["sum"] is not iterable (a number)      *)
(*   haslabel  "label" in f, label f["label"]                              *)

NoStr == <<>>
SumLabel == <<"S", "u", "m">>

FStr(s) ==
  [kind |-> "str", s |-> s, haskey |-> FALSE, key |-> NoStr, hassum |-> FALSE,
   sumiter |-> TRUE, sum |-> <<>>, haslabel |-> FALSE, label |-> NoStr]

FDict(haskey, key, hassum, sumiter, sum, haslabel, label) ==
  [kind |-> "dict", s |-> NoStr, haskey |-> haskey, key |-> key,
   hassum |-> hassum, sumiter |-> sumiter, sum |-> sum,
   haslabel |-> haslabel, label |-> label]

FOther ==
  [kind |-> "other", s |-> NoStr, haskey |-> FALSE, key |-> NoStr,
   hassum |-> FALSE, sumiter |-> TRUE, sum |-> <<>>, haslabel |-> FALSE,
   label |-> NoStr]

\* mutant: the NaN test left out
Blank0_KeepNaN(v) == IF v.t \in {"none", "empty"} THEN Int0 ELSE v

\* lines 197-198: blanks / None / NaN become the int 0
Blank0(v) == IF v.t \in {"none", "nan", "empty"} THEN Int0 ELSE v

\* mutant: only numbers are added, strings count as 0
SumTerm_NumbersOnly(rl, k) ==
  LET v == DictGet(rl, k, Int0)
  IN IF v.t \in {"int", "float"} THEN V("float", v.n)
     ELSE IF v.t \in {"inf", "ninf"} THEN v ELSE Float0

\* lines 194-204: the float appended to vals for one key of a sum
SumTerm(rl, k) ==
  LET v == Blank0(DictGet(rl, k, Int0))
      r == ToFloat(v)
  IN IF r.ok THEN r.v ELSE Float0

\* line 191: keys = [str(k).strip().lower() for k in f["sum"]]
SumKeys(f) == [n \in 1..Len(f.sum) |-> Lower(Strip(f.sum[n]))]

\* mutant: the key is stripped but not folded
EvalDirect_NoFold(rl, f) ==
  [out |-> "set", label |-> f.s, val |-> DictGet(rl, Strip(f.s), None)]

\* lines 179-182: a plain string
EvalDirect(rl, f) ==
  [out |-> "set", label |-> f.s, val |-> DictGet(rl, Lower(Strip(f.s)), None)]

\* lines 184-187: a dict with "key"
EvalAliased(rl, f) ==
  LET key == Lower(Strip(f.key))
  IN [out |-> "set",
      label |-> IF f.haslabel THEN f.label ELSE key,
      val |-> DictGet(rl, key, None)]

\* lines 189-205: a dict with "sum"
EvalSum(rl, f) ==
  IF ~f.sumiter THEN [out |-> "raise", label |-> NoStr, val |-> None]
  ELSE LET keys == SumKeys(f)
           vals == [n \in 1..Len(keys) |-> SumTerm(rl, keys[n])]
       IN [out |-> "set",
           label |-> IF f.haslabel THEN f.label ELSE SumLabel,
           val |-> PySum(vals)]

\* mutant: an unrecognized entry raises instead of being skipped
EvalField_RaiseOnUnknown(rl, f) ==
  IF f.kind = "str" THEN EvalDirect(rl, f)
  ELSE IF f.kind = "dict" /\ f.haskey THEN EvalAliased(rl, f)
  ELSE IF f.kind = "dict" /\ f.hassum THEN EvalSum(rl, f)
  ELSE [out |-> "raise", label |-> NoStr, val |-> None]

\* lines 177-209: one iteration of the loop over fields_cfg
EvalField(rl, f) ==
  IF f.kind = "str" THEN EvalDirect(rl, f)
  ELSE IF f.kind = "dict" /\ f.haskey THEN EvalAliased(rl, f)
  ELSE IF f.kind = "dict" /\ f.hassum THEN EvalSum(rl, f)
  ELSE [out |-> "skip", label |-> NoStr, val |-> None]

----------------------------------------------------------------------------
(* Inputs of the field evaluation *)

ColNames == {<<"a">>, <<"A">>, <<"b">>}
KeyNames == {<<"a">>, <<"A">>, <<"b">>}
PaddedKeys == KeyNames \cup {<<" ", "A", " ">>}
Labels == {<<"L">>}
CellVals ==
  {None, NaN, Inf, NInf, V("int", -1), V("int", 2), V("empty", 0),
   V("text", 0), V("numstr", 3)}

Col(k, v) == [k |-> k, v |-> v]

Distinct(s) == \A m, n \in 1..Len(s) : s[m] = s[n] => m = n

SeqsUpTo(S, n) == UNION {[1..m -> S] : m \in 0..n}

\* a row as row.items(): [k, v] in column order, the column names distinct
Rows(maxCols) ==
  UNION {[1..m -> [k : ColNames, v : CellVals]] : m \in 0..maxCols}

EvalRows == {r \in Rows(MaxCols) : Distinct([n \in 1..Len(r) |-> r[n].k])}

OptLabel == {[has |-> FALSE, l |-> NoStr]} \cup {[has |-> TRUE, l |-> l] : l \in Labels}

FieldSpecs ==
  {FStr(s) : s \in PaddedKeys}
  \cup {FDict(TRUE, k, FALSE, TRUE, <<>>, ol.has, ol.l) : k \in PaddedKeys, ol \in OptLabel}
  \cup {FDict(FALSE, NoStr, TRUE, TRUE, ks, FALSE, NoStr) : ks \in SeqsUpTo(KeyNames, MaxKeys)}
  \cup {FDict(FALSE, NoStr, TRUE, TRUE, <<<<"b">>>>, TRUE, <<"L">>),
        FDict(FALSE, NoStr, TRUE, TRUE, <<<<" ", "A", " ">>, <<"b">>>>, FALSE, NoStr),
        FDict(FALSE, NoStr, TRUE, FALSE, <<>>, FALSE, NoStr),
        FDict(TRUE, <<"a">>, TRUE, TRUE, <<<<"b">>>>, FALSE, NoStr),
        FDict(FALSE, NoStr, FALSE, TRUE, <<>>, FALSE, NoStr),
        FDict(FALSE, NoStr, FALSE, TRUE, <<>>, TRUE, <<"L">>),
        FOther}

NoOut == [out |-> "none", label |-> NoStr, val |-> None]

----------------------------------------------------------------------------
(* SpecField: one field spec evaluated against one row *)

Idle ==
  /\ CONFIG = <<>> /\ env = [creds |-> FALSE, webhook |-> FALSE]
  /\ y_mt = 0 /\ i = 0 /\ df = [columns |-> <<>>, data |-> <<>>]
  /\ j = 0 /\ fields_out = <<>> /\ results = <<>> /\ exc = "" /\ status_code = 0
  /\ blocks = <<>> /\ sheet = [header |-> <<>>, rows |-> <<>>]
  /\ sel_out = [st |-> "none", row |-> <<>>]

InitField ==
  /\ Idle
  /\ pc = "field"
  /\ row \in EvalRows
  /\ row_l = RowL(row)
  /\ f_in = FOther /\ f_out = NoOut /\ fetched = <<>>

FieldEval ==
  /\ pc = "field"
  /\ \E f \in FieldSpecs :
       /\ f_in' = f
       /\ f_out' = EvalField(row_l, f)
  /\ pc' = "field_done"
  /\ UNCHANGED <<CONFIG, fetched, env, y_mt, i, df, row, row_l, j, fields_out,
                 results, exc, status_code, blocks, sheet, sel_out>>

NextField == FieldEval

SpecField == InitField /\ [][NextField]_vars

----------------------------------------------------------------------------
(* Properties of the field evaluation (SpecField) *)

IsDirect(f) == f.kind = "str"
IsAliased(f) == f.kind = "dict" /\ f.haskey
IsSum(f) == f.kind = "dict" /\ ~f.haskey /\ f.hassum /\ f.sumiter
Evaluated == pc = "field_done"

\* the columns of r whose name folds to k, by position
ColsOf(r, k) == {n \in 1..Len(r) : Lower(r[n].k) = k}
Min(S) == CHOOSE x \in S : \A y \in S : x <= y
Max(S) == CHOOSE x \in S : \A y \in S : x >= y

\* what one resolved cell adds to a sum: [inf, ninf, n]
Contribution(present, c) ==
  IF ~present \/ c.t \in {"none", "nan", "empty", "text", "date", "datetime"}
  THEN [inf |-> FALSE, ninf |-> FALSE, n |-> 0]
  ELSE [inf |-> c.t = "inf", ninf |-> c.t = "ninf",
        n |-> IF c.t \in {"int", "float", "numstr"} THEN c.n ELSE 0]

RECURSIVE Total(_, _)
Total(cs, n) == IF n = 0 THEN 0 ELSE cs[n].n + Total(cs, n - 1)

\* the IEEE sum of the contributions; the int 0 for no key at all
SumOf(cs) ==
  LET p == \E n \in 1..Len(cs) : cs[n].inf
      m == \E n \in 1..Len(cs) : cs[n].ninf
  IN IF cs = <<>> THEN Int0
     ELSE IF p /\ m THEN NaN
     ELSE IF p THEN Inf
     ELSE IF m THEN NInf
     ELSE V("float", Total(cs, Len(cs)))

FoldedKeys(f) == [n \in 1..Len(f.sum) |-> Lower(Strip(f.sum[n]))]

ExpectedSum(rl, f) ==
  SumOf([n \in 1..Len(f.sum) |->
           Contribution(FoldedKeys(f)[n] \in DOMAIN rl,
                        DictGet(rl, FoldedKeys(f)[n], None))])

\* C4: a ComputedSum never raises and yields a number, never None: the sum
\* over its keys of the numeric value of each resolved cell, where an absent
\* key, a null cell, an empty string and an uncoercible cell count as 0.
C4_SumIsSumOfCoerced ==
  (Evaluated /\ IsSum(f_in)) =>
     /\ f_out.out = "set"
     /\ f_out.val.t \in {"int", "float", "inf", "ninf", "nan"}
     /\ f_out.val = ExpectedSum(row_l, f_in)

C4_Witness ==
  /\ Evaluated /\ IsSum(f_in) /\ Len(f_in.sum) = 2
  /\ row = <<Col(<<"A">>, V("numstr", 3)), Col(<<"b">>, V("text", 0))>>
  /\ f_in.sum = <<<<"a">>, <<"b">>>>
  /\ f_out.val = V("float", 3)

\* the cells a sum resolves: one per key found in the row
Underlying(rl, f) ==
  {rl[FoldedKeys(f)[n]] : n \in {m \in 1..Len(f.sum) : FoldedKeys(f)[m] \in DOMAIN rl}}

IsBlank(c) == c.t \in {"none", "nan", "empty"}
IsNumeric(c) == c.t \in {"int", "float", "numstr"}
IsFiniteNonNeg(v) == v.t \in {"int", "float"} /\ v.n >= 0

\* C5 as stated: the sum is a finite number >= 0 whenever every underlying
\* value is numeric or blank.
C5_Original ==
  (Evaluated /\ IsSum(f_in)
     /\ \A c \in Underlying(row_l, f_in) : IsNumeric(c) \/ IsBlank(c))
  => (f_out.out = "set" /\ IsFiniteNonNeg(f_out.val))

\* C5 amended: the sum is a finite number whenever every underlying value is
\* numeric or blank, and it is >= 0 when moreover no underlying value is
\* negative.
C5_FiniteAndSigned ==
  (Evaluated /\ IsSum(f_in)
     /\ \A c \in Underlying(row_l, f_in) : IsNumeric(c) \/ IsBlank(c))
  => /\ f_out.out = "set"
     /\ f_out.val.t \in {"int", "float"}
     /\ (\A c \in Underlying(row_l, f_in) : IsNumeric(c) => c.n >= 0)
          => f_out.val.n >= 0
     /\ (\A c \in Underlying(row_l, f_in) : IsNumeric(c) => c.n <= 0)
          => f_out.val.n <= 0

C5_Witness ==
  /\ Evaluated /\ IsSum(f_in)
  /\ row = <<Col(<<"a">>, V("int", -1)), Col(<<"b">>, V("empty", 0))>>
  /\ f_in.sum = <<<<"a">>, <<"b">>>>
  /\ f_out.val = V("float", -1)

UpperCh(c) ==
  CASE c = "a" -> "A"
    [] c = "b" -> "B"
    [] c = "d" -> "D"
    [] OTHER -> c

\* the strings that differ from s only in letter case
RECURSIVE CaseVariants(_)
CaseVariants(s) ==
  IF s = <<>> THEN {<<>>}
  ELSE {<<c>> \o t : c \in {LowerCh(Head(s)), UpperCh(Head(s))},
                     t \in CaseVariants(Tail(s))}

\* the key lists that differ from ks only in letter case
RECURSIVE CaseVariantLists(_)
CaseVariantLists(ks) ==
  IF ks = <<>> THEN {<<>>}
  ELSE {<<k>> \o t : k \in CaseVariants(Head(ks)), t \in CaseVariantLists(Tail(ks))}

\* the specs that differ from f only in the letter case of their keys
CaseVariantSpecs(f) ==
  {[f EXCEPT !.s = s, !.key = k, !.sum = ks] :
     s \in CaseVariants(f.s), k \in CaseVariants(f.key),
     ks \in CaseVariantLists(f.sum)}

\* C6: field lookup is case-insensitive: a Direct, Aliased or ComputedSum
\* spec and any spec that differs from it only in the letter case of its
\* keys yield the same value against the same row.
C6_CaseInsensitive ==
  (Evaluated /\ (IsDirect(f_in) \/ IsAliased(f_in) \/ IsSum(f_in))) =>
     \A g \in CaseVariantSpecs(f_in) :
        /\ EvalField(row_l, g).out = f_out.out
        /\ EvalField(row_l, g).val = f_out.val

C6_Witness ==
  /\ Evaluated /\ f_in = FStr(<<"A">>)
  /\ row = <<Col(<<"a">>, V("int", 2))>>
  /\ f_out.val = V("int", 2)
  /\ EvalField(row_l, FStr(<<"a">>)).val = V("int", 2)

\* C9 as stated: an Aliased spec without a label is labelled with its key as
\* written, with a label it is labelled with that label.
C9_LabelIsKeyAsWritten ==
  (Evaluated /\ IsAliased(f_in)) =>
     f_out.label = (IF f_in.haslabel THEN f_in.label ELSE f_in.key)

\* the value a lookup of the folded name k finds when the n-th of the columns
\* folding to k is the one kept
Kept(r, k, n) == IF ColsOf(r, k) = {} THEN None ELSE r[n].v

Collides(r, k) == Cardinality(ColsOf(r, k)) >= 2

\* C10 as stated: on a collision of folded column names a Direct or Aliased
\* lookup returns the value of the first of the colliding columns.
C10_FirstWins ==
  (Evaluated /\ (IsDirect(f_in) \/ IsAliased(f_in))) =>
     LET k == Lower(Strip(IF IsDirect(f_in) THEN f_in.s ELSE f_in.key))
     IN Collides(row, k) => f_out.val = Kept(row, k, Min(ColsOf(row, k)))

\* C10 amended: on a collision of folded column names every lookup (Direct,
\* Aliased, ComputedSum) returns the value of the last of the colliding
\* columns in the row's column order.
C10_LastWins ==
  /\ (Evaluated /\ (IsDirect(f_in) \/ IsAliased(f_in))) =>
       LET k == Lower(Strip(IF IsDirect(f_in) THEN f_in.s ELSE f_in.key))
       IN Collides(row, k) => f_out.val = Kept(row, k, Max(ColsOf(row, k)))
  /\ (Evaluated /\ IsSum(f_in)) =>
       f_out.val =
         SumOf([n \in 1..Len(f_in.sum) |->
                  LET k == FoldedKeys(f_in)[n]
                  IN Contribution(ColsOf(row, k) # {},
                                  IF ColsOf(row, k) = {} THEN None
                                  ELSE row[Max(ColsOf(row, k))].v)])

C10_Witness ==
  /\ Evaluated /\ f_in = FStr(<<"a">>)
  /\ row = <<Col(<<"A">>, V("int", 2)), Col(<<"a">>, V("int", -1))>>
  /\ f_out.val = V("int", -1)

----------------------------------------------------------------------------
(* Sheets and row selection *)

\* a worksheet: its header row and its data rows, each aligned to the header
Sheet(header, rows) == [header |-> header, rows |-> rows]

\* lines 96-98: get_all_records gives one dict per data row, keyed by the
\* header; DataFrame(data) takes its columns from those dicts, so it has no
\* column at all when there is no data row
fetch_sheet_df(sh) ==
  [columns |-> IF sh.rows = <<>> THEN <<>> ELSE sh.header, data |-> sh.rows]

NaT == 0 - 1

\* line 103: pd.to_datetime(cell, errors="coerce") reduced to a calendar day;
\* a number is taken as nanoseconds since the epoch: day 0
ToDate(c) ==
  CASE c.t \in {"date", "datetime"} -> c.n
    [] c.t \in {"int", "float"} -> 0
    [] OTHER -> NaT

IndexOf(seq, x) == Min({n \in 1..Len(seq) : seq[n] = x})

\* lines 99-108
row_for_date(d, date_column, target_date) ==
  IF \A n \in 1..Len(d.columns) : d.columns[n] # date_column
  THEN [st |-> "raise", row |-> <<>>]
  ELSE LET c == IndexOf(d.columns, date_column)
           mask == {n \in 1..Len(d.data) : ToDate(d.data[n][c]) = target_date}
       IN IF mask = {} THEN [st |-> "none", row |-> <<>>]
          ELSE [st |-> "row",
                row |-> [n \in 1..Len(d.columns) |->
                           Col(d.columns[n], d.data[Min(mask)][n])]]

Days == {1, 2}
DateCol == <<"d">>
DataCol == <<"a">>
DateCells ==
  {V("date", 1), V("date", 2), V("datetime", 1), V("text", 0), V("empty", 0),
   None, V("int", 2)}
DataCells == {V("int", 2), V("empty", 0)}
SelHeaders == {<<DateCol, DataCol>>, <<DataCol, DateCol>>, <<<<"D">>, DataCol>>, <<DataCol>>}

\* the data rows of a sheet with header h: a date cell under DateCol, a data
\* cell under every other column
SelRows(h) ==
  {[n \in 1..Len(h) |-> IF h[n] = DateCol THEN p[1] ELSE p[2]] : p \in DateCells \X DataCells}

SelSheets == UNION {{Sheet(h, rs) : rs \in SeqsUpTo(SelRows(h), MaxRows)} : h \in SelHeaders}

Cfg(title, hastitle, worksheet, date_column, fields) ==
  [title |-> title, hastitle |-> hastitle, worksheet |-> worksheet,
   date_column |-> date_column, fields |-> fields]

\* SpecSelect: one table fetched and searched for one target day
InitSelect ==
  /\ sheet \in SelSheets
  /\ y_mt \in Days
  /\ CONFIG = <<Cfg(<<"title", 1>>, TRUE, <<"ws", 1>>, DateCol, <<>>)>>
  /\ pc = "sel"
  /\ env = [creds |-> FALSE, webhook |-> FALSE]
  /\ i = 1 /\ df = [columns |-> <<>>, data |-> <<>>]
  /\ row = <<>> /\ row_l = EmptyDict
  /\ j = 0 /\ fields_out = <<>> /\ results = <<>> /\ exc = "" /\ status_code = 0
  /\ blocks = <<>>
  /\ sel_out = [st |-> "none", row |-> <<>>]
  /\ f_in = FOther /\ f_out = NoOut /\ fetched = <<>>

SelectRow ==
  /\ pc = "sel"
  /\ df' = fetch_sheet_df(sheet)
  /\ sel_out' = row_for_date(df', CONFIG[i].date_column, y_mt)
  /\ pc' = "sel_done"
  /\ UNCHANGED <<CONFIG, fetched, env, y_mt, i, row, row_l, j, fields_out,
                 results, exc, status_code, blocks, sheet, f_in, f_out>>

NextSelect == SelectRow

SpecSelect == InitSelect /\ [][NextSelect]_vars

\* a cell that resolves to the calendar day d
Resolves(c, d) == c.t \in {"date", "datetime"} /\ c.n = d

\* the cells under the date column of a sheet
DateColumnCells(sh, date_column) ==
  {sh.rows[n][IndexOf(sh.header, date_column)] : n \in 1..Len(sh.rows)}

HasColumn(sh, date_column) == \E n \in 1..Len(sh.header) : sh.header[n] = date_column

\* C2: for every table, a table without rows included, and every target day:
\* when no cell of the date column resolves to the target day the selection
\* returns None and raises nothing; unparsable cells count as non-matching.
C2_NoMatchIsNotFound ==
  (pc = "sel_done" /\ HasColumn(sheet, CONFIG[i].date_column)
     /\ \A c \in DateColumnCells(sheet, CONFIG[i].date_column) : ~Resolves(c, y_mt))
  => sel_out.st = "none"

----------------------------------------------------------------------------
(* One run of main() *)

\* cfg.get("title", cfg.get("worksheet", "Sheet"))
Title(cfg) == IF cfg.hastitle THEN cfg.title ELSE cfg.worksheet

\* mutant: a missing row reported as an error
WarningEntry_AsError(cfg) ==
  [title |-> Title(cfg), status |-> "error", msg |-> "", hasfields |-> FALSE,
   fields |-> <<>>]

\* the entries main() appends to results
WarningEntry(cfg) ==
  [title |-> Title(cfg), status |-> "warning", msg |-> "", hasfields |-> FALSE,
   fields |-> <<>>]
SuccessEntry(cfg, fo) ==
  [title |-> Title(cfg), status |-> "", msg |-> "", hasfields |-> TRUE,
   fields |-> fo]
ErrorEntry(cfg, e) ==
  [title |-> Title(cfg), status |-> "error", msg |-> e, hasfields |-> FALSE,
   fields |-> <<>>]

\* lines 136-155: the header, a divider, then a section and a divider per
\* entry; r.get("fields", {}) gives the section its field lines
\* (the text of a value, _fmt_value, and the emoji are left out)
build_blocks(rs) ==
  LET Section(r) == [type |-> "section", title |-> r.title,
                     lines |-> [n \in 1..Len(r.fields) |-> r.fields[n].k],
                     status |-> r.status]
      Plain(t) == [type |-> t, title |-> <<>>, lines |-> <<>>, status |-> ""]
  IN <<Plain("header"), Plain("divider")>> \o
     [n \in 1..(2 * Len(rs)) |->
        IF n % 2 = 1 THEN Section(rs[(n + 1) \div 2]) ELSE Plain("divider")]

\* lines 176-209 as a whole: the fields_out of a field list, or a raise
RECURSIVE EvalUpTo(_, _, _)
EvalUpTo(rl, fs, n) ==
  IF n = 0 THEN [raised |-> FALSE, out |-> <<>>]
  ELSE LET before == EvalUpTo(rl, fs, n - 1)
           e == EvalField(rl, fs[n])
       IN IF before.raised \/ e.out = "raise" THEN [raised |-> TRUE, out |-> <<>>]
          ELSE IF e.out = "skip" THEN before
          ELSE [raised |-> FALSE, out |-> ODictPut(before.out, e.label, e.val)]

EvaluateAll(rl, fs) == EvalUpTo(rl, fs, Len(fs))

\* lines 164-221 as a whole: the entry of one source, given what its fetch
\* returned
SourceEntry(cfg, fe, day) ==
  IF ~fe.ok THEN ErrorEntry(cfg, "fetch")
  ELSE LET r == row_for_date(fetch_sheet_df(fe.sheet), cfg.date_column, day)
       IN IF r.st = "raise" THEN ErrorEntry(cfg, "datecol")
          ELSE IF r.st = "none" THEN WarningEntry(cfg)
          ELSE LET e == EvaluateAll(RowL(r.row), cfg.fields)
               IN IF e.raised THEN ErrorEntry(cfg, "eval")
                  ELSE SuccessEntry(cfg, e.out)

\* the configured sources: source n is titled when n is odd and falls back
\* to its worksheet name when n is even
FieldLists ==
  {<<FStr(<<"A">>), FDict(FALSE, NoStr, TRUE, TRUE, <<<<"a">>, <<"b">>>>, TRUE, <<"L">>)>>,
   <<FOther, FStr(<<"a">>), FDict(FALSE, NoStr, FALSE, TRUE, <<>>, TRUE, <<"L">>),
     FDict(TRUE, <<"A">>, FALSE, TRUE, <<>>, FALSE, NoStr)>>,
   <<FStr(<<"a">>), FDict(FALSE, NoStr, TRUE, FALSE, <<>>, FALSE, NoStr), FStr(<<"b">>)>>}

Configs ==
  UNION {[1..n -> FieldLists] : n \in 0..MaxSources}

SourceCfg(n, fl) == Cfg(<<"title", n>>, n % 2 = 1, <<"ws", n>>, DateCol, fl)

MainSheets ==
  {Sheet(<<DateCol, DataCol>>, <<>>),
   Sheet(<<DataCol>>, <<<<V("int", 2)>>>>),
   Sheet(<<DataCol, DateCol>>, <<<<NaN, V("date", 2)>>>>),
   Sheet(<<DateCol, <<"A">>, DataCol>>,
         <<<<V("text", 0), V("int", 2), V("int", 2)>>,
           <<V("datetime", 1), V("numstr", 3), V("empty", 0)>>,
           <<V("date", 1), V("int", 2), V("int", -1)>>>>)}

Init ==
  /\ \E c \in Configs : CONFIG = [n \in 1..Len(c) |-> SourceCfg(n, c[n])]
  /\ env \in [creds : BOOLEAN, webhook : BOOLEAN]
  /\ y_mt \in Days
  /\ pc = "start"
  /\ i = 0 /\ df = [columns |-> <<>>, data |-> <<>>]
  /\ row = <<>> /\ row_l = EmptyDict
  /\ j = 0 /\ fields_out = <<>> /\ results = <<>> /\ exc = "" /\ status_code = 0
  /\ blocks = <<>> /\ sheet = [header |-> <<>>, rows |-> <<>>]
  /\ sel_out = [st |-> "none", row |-> <<>>]
  /\ f_in = FOther /\ f_out = NoOut /\ fetched = <<>>

\* the for loop moves to the next cfg, or ends
Advance(n) == IF n < Len(CONFIG) THEN "fetch" ELSE "deliver"

\* lines 157-162: make_creds raises when the key is missing
MakeCreds ==
  /\ pc = "start"
  /\ IF env.creds
     THEN /\ pc' = Advance(0) /\ i' = 1 /\ exc' = exc
     ELSE /\ pc' = "raised" /\ exc' = "creds" /\ i' = i
  /\ UNCHANGED <<CONFIG, fetched, env, y_mt, df, row, row_l, j, fields_out,
                 results, status_code, blocks, sheet, sel_out, f_in, f_out>>

\* mutant: no except clause, the fetch error leaves main()
FetchFail_Abort ==
  /\ pc = "fetch"
  /\ pc' = "raised" /\ exc' = "fetch"
  /\ fetched' = Append(fetched, [ok |-> FALSE, sheet |-> Sheet(<<>>, <<>>)])
  /\ UNCHANGED <<CONFIG, env, y_mt, i, df, row, row_l, j, fields_out, results,
                 status_code, blocks, sheet, sel_out, f_in, f_out>>

\* lines 165, 217-221: fetch_sheet_df raises, the except clause appends
FetchFail ==
  /\ pc = "fetch"
  /\ results' = Append(results, ErrorEntry(CONFIG[i], "fetch"))
  /\ fetched' = Append(fetched, [ok |-> FALSE, sheet |-> Sheet(<<>>, <<>>)])
  /\ pc' = Advance(i) /\ i' = i + 1
  /\ UNCHANGED <<CONFIG, env, y_mt, df, row, row_l, j, fields_out, exc,
                 status_code, blocks, sheet, sel_out, f_in, f_out>>

\* line 165: fetch_sheet_df returns the table
FetchOk ==
  /\ pc = "fetch"
  /\ \E sh \in MainSheets :
       /\ fetched' = Append(fetched, [ok |-> TRUE, sheet |-> sh])
       /\ df' = fetch_sheet_df(sh)
  /\ pc' = "select"
  /\ UNCHANGED <<CONFIG, env, y_mt, i, row, row_l, j, fields_out, results,
                 exc, status_code, blocks, sheet, sel_out, f_in, f_out>>

\* lines 166-176
Select ==
  /\ pc = "select"
  /\ LET r == row_for_date(df, CONFIG[i].date_column, y_mt)
     IN /\ sel_out' = r
        /\ CASE r.st = "raise" ->
                  /\ results' = Append(results, ErrorEntry(CONFIG[i], "datecol"))
                  /\ pc' = Advance(i) /\ i' = i + 1
                  /\ UNCHANGED <<row, row_l, j, fields_out>>
             [] r.st = "none" ->
                  /\ results' = Append(results, WarningEntry(CONFIG[i]))
                  /\ pc' = Advance(i) /\ i' = i + 1
                  /\ row' = <<>>
                  /\ UNCHANGED <<row_l, j, fields_out>>
             [] OTHER ->
                  /\ row' = r.row /\ row_l' = RowL(r.row)
                  /\ fields_out' = <<>> /\ j' = 1
                  /\ pc' = "eval"
                  /\ UNCHANGED <<results, i>>
  /\ UNCHANGED <<CONFIG, fetched, env, y_mt, df, exc, status_code, blocks,
                 sheet, f_in, f_out>>

\* lines 177-209: one field spec; a raise ends the source (lines 217-221)
EvalStep ==
  /\ pc = "eval" /\ j <= Len(CONFIG[i].fields)
  /\ LET e == EvalField(row_l, CONFIG[i].fields[j])
     IN /\ f_in' = CONFIG[i].fields[j] /\ f_out' = e
        /\ CASE e.out = "raise" ->
                  /\ results' = Append(results, ErrorEntry(CONFIG[i], "eval"))
                  /\ pc' = Advance(i) /\ i' = i + 1
                  /\ UNCHANGED <<j, fields_out>>
             [] e.out = "skip" ->
                  /\ j' = j + 1
                  /\ UNCHANGED <<fields_out, results, pc, i>>
             [] OTHER ->
                  /\ fields_out' = ODictPut(fields_out, e.label, e.val)
                  /\ j' = j + 1
                  /\ UNCHANGED <<results, pc, i>>
  /\ UNCHANGED <<CONFIG, fetched, env, y_mt, df, row, row_l, exc, status_code,
                 blocks, sheet, sel_out>>

\* lines 211-216
AppendSuccess ==
  /\ pc = "eval" /\ j > Len(CONFIG[i].fields)
  /\ results' = Append(results, SuccessEntry(CONFIG[i], fields_out))
  /\ pc' = Advance(i) /\ i' = i + 1
  /\ UNCHANGED <<CONFIG, fetched, env, y_mt, df, row, row_l, j, fields_out,
                 exc, status_code, blocks, sheet, sel_out, f_in, f_out>>

StatusCodes == {200, 300}

\* mutant: the response status is not looked at
slack_post_blocks_NoCheck(webhook, code) ==
  IF webhook THEN "return" ELSE "raise"

\* lines 109-117
slack_post_blocks(webhook, code) ==
  IF webhook THEN (IF code >= 300 THEN "raise" ELSE "return") ELSE "raise"

\* lines 222-223: build_blocks, then slack_post_blocks; nothing catches
Deliver ==
  /\ pc = "deliver"
  /\ blocks' = build_blocks(results)
  /\ \E code \in StatusCodes :
       /\ status_code' = IF env.webhook THEN code ELSE 0
       /\ IF slack_post_blocks(env.webhook, code) = "raise"
          THEN pc' = "raised" /\ exc' = "slack"
          ELSE pc' = "done" /\ exc' = exc
  /\ UNCHANGED <<CONFIG, fetched, env, y_mt, i, df, row, row_l, j, fields_out,
                 results, sheet, sel_out, f_in, f_out>>

Next ==
  \/ MakeCreds
  \/ FetchFail
  \/ FetchOk
  \/ Select
  \/ EvalStep
  \/ AppendSuccess
  \/ Deliver

Spec == Init /\ [][Next]_vars

----------------------------------------------------------------------------
(* SpecEval: the field loop of one source on one selected row *)

ListRows ==
  {<<>>,
   <<Col(DateCol, V("date", 1)), Col(<<"A">>, V("numstr", 3)), Col(<<"a">>, V("int", 2))>>,
   <<Col(<<"b">>, V("text", 0)), Col(<<"a">>, None)>>}

ListSpecs ==
  {FStr(<<"a">>), FStr(<<"L">>),
   FDict(TRUE, <<"b">>, FALSE, TRUE, <<>>, TRUE, <<"L">>),
   FDict(FALSE, NoStr, TRUE, TRUE, <<<<"A">>, <<"b">>>>, FALSE, NoStr),
   FDict(FALSE, NoStr, TRUE, FALSE, <<>>, FALSE, NoStr),
   FDict(FALSE, NoStr, FALSE, TRUE, <<>>, FALSE, NoStr),
   FDict(FALSE, NoStr, FALSE, TRUE, <<>>, TRUE, <<"L">>),
   FOther}

InitEval ==
  /\ \E fl \in SeqsUpTo(ListSpecs, MaxFields) : CONFIG = <<SourceCfg(1, fl)>>
  /\ row \in ListRows
  /\ row_l = RowL(row)
  /\ pc = "eval" /\ i = 1 /\ j = 1 /\ fields_out = <<>> /\ results = <<>>
  /\ env = [creds |-> TRUE, webhook |-> TRUE]
  /\ y_mt = 1 /\ df = [columns |-> <<>>, data |-> <<>>]
  /\ exc = "" /\ status_code = 0
  /\ blocks = <<>> /\ sheet = [header |-> <<>>, rows |-> <<>>]
  /\ sel_out = [st |-> "row", row |-> row]
  /\ f_in = FOther /\ f_out = NoOut /\ fetched = <<>>

NextEval ==
  \/ EvalStep
  \/ AppendSuccess

SpecEval == InitEval /\ [][NextEval]_vars

----------------------------------------------------------------------------
(* Properties of the run (Spec) and of the field loop (SpecEval) *)

N == Len(CONFIG)
InLoop == pc \in {"fetch", "select", "eval"}
DeliveryAttempted == pc = "done" \/ (pc = "raised" /\ exc = "slack")

\* C1: every configured source is processed and results holds exactly one
\* entry per source, entry n that of source n; a source that raises gives an
\* Error entry of its own and neither stops the run nor changes the entries
\* of the other sources; rendering receives all N entries in order.
C1_OneEntryPerSourceInOrder ==
  /\ pc = "raised" => exc \in {"creds", "slack"}
  /\ InLoop => (i \in 1..N /\ Len(results) = i - 1)
  /\ \A n \in 1..Len(results) : results[n].title = Title(CONFIG[n])
  /\ pc = "deliver" =>
        /\ Len(results) = N
        /\ \A n \in 1..N : results[n] = SourceEntry(CONFIG[n], fetched[n], y_mt)
  /\ DeliveryAttempted =>
        /\ Len(results) = N
        /\ Len(blocks) = 2 + 2 * N
        /\ \A n \in 1..N : blocks[2 * n + 1].title = Title(CONFIG[n])

C1_Witness ==
  /\ pc = "done" /\ N = 3 /\ Len(results) = 3
  /\ results[1].status = "" /\ results[1].fields # <<>>
  /\ results[2].status = "error" /\ ~fetched[2].ok
  /\ results[3].status = "warning"

\* C3: delivery is attempted only once every source has its entry, and a
\* failure of the delivery (no webhook configured, or a status of 300 or
\* more) leaves main() as an exception: it is not caught and no entry is made
\* of it, whatever the entries of the sources are.
C3_DeliveryFailureIsFatal ==
  /\ (pc = "deliver" \/ DeliveryAttempted) =>
        /\ Len(results) = N
        /\ \A n \in 1..N : results[n].title = Title(CONFIG[n])
  /\ InLoop => blocks = <<>>
  /\ DeliveryAttempted =>
        ((~env.webhook \/ status_code >= 300) <=> (pc = "raised" /\ exc = "slack"))
  /\ pc = "done" => (env.webhook /\ status_code < 300)

C3_Witness ==
  /\ pc = "raised" /\ exc = "slack" /\ env.webhook /\ status_code = 300
  /\ N = 3 /\ Len(results) = 3
  /\ results[1].status = "error" /\ results[2].status = ""

Recognized(f) == f.kind = "str" \/ (f.kind = "dict" /\ (f.haskey \/ f.hassum))
Raises(f) == f.kind = "dict" /\ ~f.haskey /\ f.hassum /\ ~f.sumiter
LabelOf(f) ==
  IF f.kind = "str" THEN f.s
  ELSE IF f.haskey THEN (IF f.haslabel THEN f.label ELSE Lower(Strip(f.key)))
  ELSE (IF f.haslabel THEN f.label ELSE SumLabel)

\* C7: entries of unrecognized shape are dropped silently: they raise
\* nothing, leave no entry in the output, and the outcome of a field list is
\* that of the list without them.
C7_UnrecognizedDropped ==
  (pc = "deliver" /\ Len(results) = 1) =>
     LET fs == CONFIG[1].fields
         kept == SelectSeq(fs, Recognized)
         e == EvaluateAll(row_l, kept)
     IN /\ results[1] = (IF e.raised THEN ErrorEntry(CONFIG[1], "eval")
                         ELSE SuccessEntry(CONFIG[1], e.out))
        /\ (\A n \in 1..Len(fs) : ~Raises(fs[n])) => results[1].status = ""
        /\ \A m \in 1..Len(results[1].fields) :
              \E n \in 1..Len(kept) : results[1].fields[m].k = LabelOf(kept[n])

C7_Witness ==
  /\ pc = "deliver" /\ Len(results) = 1
  /\ CONFIG[1].fields =
       <<FOther, FStr(<<"a">>), FDict(FALSE, NoStr, FALSE, TRUE, <<>>, TRUE, <<"L">>)>>
  /\ row_l = RowL(<<Col(<<"b">>, V("text", 0)), Col(<<"a">>, None)>>)
  /\ results[1].status = ""
  /\ results[1].fields = <<Col(<<"a">>, None)>>

\* the entry a step appends
Appended == results'[Len(results')]

\* C8: each source goes through its own outcome machine and ends with one
\* entry: an Error entry exactly when the fetch failed, the date column is
\* missing or a field spec raised; a Warning entry exactly when the selection
\* found no row; a Success entry exactly when a row was found and every field
\* spec was evaluated.  Fields are evaluated only after a row was selected,
\* and only a Success entry carries fields.
C8_SourceStateMachine ==
  [][
    /\ (pc' = "eval" /\ pc # "eval") => (pc = "select" /\ sel_out'.st = "row")
    /\ (f_out' # f_out \/ fields_out' # fields_out) => pc \in {"select", "eval"}
    /\ fields_out' # fields_out => (pc = "eval" \/ fields_out' = <<>>)
    /\ i' # i => (pc = "start" \/ (i' = i + 1 /\ Len(results') = Len(results) + 1))
    /\ results' # results =>
         /\ Len(results') = Len(results) + 1
         /\ SubSeq(results', 1, Len(results)) = results
         /\ i' = i + 1
         /\ Appended.title = Title(CONFIG[i])
         /\ Appended.status = "error" <=>
              \/ pc = "fetch"
              \/ pc = "select" /\ \A n \in 1..Len(df.columns) : df.columns[n] # DateCol
              \/ pc = "eval" /\ j <= Len(CONFIG[i].fields) /\ Raises(CONFIG[i].fields[j])
         /\ Appended.status = "warning" <=>
              /\ pc = "select"
              /\ \E n \in 1..Len(df.columns) : df.columns[n] = DateCol
              /\ \A n \in 1..Len(df.data) :
                    ~Resolves(df.data[n][IndexOf(df.columns, DateCol)], y_mt)
         /\ Appended.status = "" <=> (pc = "eval" /\ j > Len(CONFIG[i].fields))
         /\ Appended.hasfields <=> Appended.status = ""
         /\ Appended.fields = (IF Appended.status = "" THEN fields_out ELSE <<>>)
  ]_vars

C8_Witness ==
  /\ Len(results) = 3
  /\ results[1].status = "" /\ results[1].hasfields /\ results[1].fields # <<>>
  /\ results[2].status = "warning"
  /\ results[3].status = "error" /\ results[3].msg = "eval" /\ ~results[3].hasfields
  /\ fields_out # <<>>

====
